---- MODULE Spec2Model ----
(***************************************************************************)
(* Edge: request routing, per-request application instances, the worker    *)
(* pool behind the listener threads, and the response writer.              *)
(*                                                                         *)
(* src/src/lib.rs holds the registration API (Edge::get .. Edge::insert)   *)
(* and the two serving entry points (Edge::start, Edge::start_with);       *)
(* src/examples/basic.rs holds the example application.  The modules       *)
(* router, handler, request and response that lib.rs declares are not part *)
(* of the sources at hand: what they do is modelled from sections 3 to 7   *)
(* of the design document, and every such definition says so.              *)
(***************************************************************************)
EXTENDS Naturals, Sequences, FiniteSets

(***************************************************************************)
(* Strings.  A path or pattern string is a sequence of tokens: "/" and ":" *)
(* are the two characters the router gives a meaning to, every other token *)
(* is a run of ordinary characters.  Segments and bodies are TLA+ strings, *)
(* concatenated with \o.                                                   *)
(***************************************************************************)

\* Bounds of the model: registrations made, connections taken, connections
\* taken while callbacks block, writer operations of one callback.
MaxRoutes == 2
MaxReq == 2
MaxStall == 4
MaxOps == 3

\* hyper::Method, the five methods the registration API names.
Methods == {"Get", "Post", "Put", "Delete", "Head"}

\* Pattern strings handed to the registration API.
PatternStrings ==
    { <<"/", "hello", "/", ":", "first_name", "/", ":", "last_name">>,
      <<"/", "static">>,
      <<"/", "static", "/", "css">>,
      <<"/", "static", "/", ":", "name">> }

\* Request paths.
PathStrings ==
    { <<"/">>,
      <<"/", "hello">>,
      <<"/", "hello", "/", "Jane", "/", "Doe">>,
      <<"/", "static">>,
      <<"/", "static", "/">>,
      <<"/", "static", "/", "css">>,
      <<"/", "static", "/", "css", "/", "site.css">> }

\* str.split('/'): the runs of tokens between "/" tokens, empty runs kept.
RECURSIVE Split(_)
Split(s) ==
    IF s = <<>> THEN << <<>> >>
    ELSE LET rest == Split(Tail(s))
         IN  IF Head(s) = "/" THEN << <<>> >> \o rest
             ELSE << <<Head(s)>> \o Head(rest) >> \o Tail(rest)

\* The text of a run of tokens.
RECURSIVE SegText(_)
SegText(seg) == IF seg = <<>> THEN "" ELSE Head(seg) \o SegText(Tail(seg))

\* The segments of an absolute path: the empty run before the leading "/" is
\* no segment ("/static/css" has the two segments static, css; "/" has the
\* one empty segment).
RawSegments(s) ==
    LET parts == Split(s)
    IN  IF Len(parts) > 1 /\ Head(parts) = <<>> THEN Tail(parts) ELSE parts

\* Request::path(): the path's segments as strings.
PathSegments(s) ==
    LET raw == RawSegments(s) IN [i \in 1..Len(raw) |-> SegText(raw[i])]

\* slice.join(sep)
RECURSIVE Join(_, _)
Join(segs, sep) ==
    IF segs = <<>> THEN ""
    ELSE IF Len(segs) = 1 THEN segs[1]
    ELSE segs[1] \o sep \o Join(Tail(segs), sep)

\* &slice[n..] with n counted from 0
SliceFrom(segs, n) == SubSeq(segs, n + 1, Len(segs))

(***************************************************************************)
(* Route table (router.rs, modelled from sections 3 and 4.1).              *)
(***************************************************************************)

Wildcard == [kind |-> "Wildcard", name |-> ""]

\* One pattern segment: ":name" is Param(name), anything else a Literal.
ParseSegment(seg) ==
    IF seg # <<>> /\ Head(seg) = ":"
    THEN [kind |-> "Param", name |-> SegText(Tail(seg))]
    ELSE [kind |-> "Literal", name |-> SegText(seg)]

\* Pattern parsing: split by "/", one segment per run.
ParsePattern(s) ==
    LET raw == RawSegments(s) IN [i \in 1..Len(raw) |-> ParseSegment(raw[i])]

\* Instance<T> and Static, converted into Callback<T> (callback.into()).
InstanceCallback(f) == [kind |-> "Instance", id |-> f]
StaticCallback(f) == [kind |-> "Static", id |-> f]
NoCallback == [kind |-> "None", id |-> 0]

\* Router::insert with a later route taking the place of an earlier one of the
\* same method and pattern.
RouterInsertReplacing(rt, method, path, callback) ==
    LET segs == ParsePattern(path)
                  \o (IF callback.kind = "Static" THEN <<Wildcard>> ELSE <<>>)
        kept == SelectSeq(rt, LAMBDA r : ~(r.method = method /\ r.segments = segs))
    IN  Append(kept, [method |-> method, segments |-> segs, callback |-> callback])

\* Router::insert: the route goes after the routes registered before it; a
\* static callback's mount path gets a Wildcard suffix.
RouterInsert(rt, method, path, callback) ==
    Append(rt, [method   |-> method,
                segments |-> ParsePattern(path)
                               \o (IF callback.kind = "Static" THEN <<Wildcard>> ELSE <<>>),
                callback |-> callback])

IsWildcardRoute(segs) == segs # <<>> /\ segs[Len(segs)].kind = "Wildcard"

\* A Literal equals the path segment, a Param meets a non-empty one.
SegmentMatches(seg, p) ==
    CASE seg.kind = "Literal" -> seg.name = p
      [] seg.kind = "Param"   -> p # ""
      [] OTHER                -> TRUE

\* (a) equal segment counts and every segment matches, or (b) the segments
\* before the Wildcard match the path's leading segments.
RouteMatches(segs, path) ==
    IF IsWildcardRoute(segs)
    THEN /\ Len(path) >= Len(segs) - 1
         /\ \A i \in 1..(Len(segs) - 1) : SegmentMatches(segs[i], path[i])
    ELSE /\ Len(path) = Len(segs)
         /\ \A i \in 1..Len(segs) : SegmentMatches(segs[i], path[i])

\* The (name, value) pairs of the Param segments, in pattern order.
RECURSIVE BindParams(_, _)
BindParams(segs, path) ==
    IF segs = <<>> \/ path = <<>> THEN <<>>
    ELSE (IF Head(segs).kind = "Param"
          THEN << <<Head(segs).name, Head(path)>> >> ELSE <<>>)
         \o BindParams(Tail(segs), Tail(path))

\* What a Wildcard binds: the segments it covers, joined with "/".
BindRemainder(segs, path) ==
    IF IsWildcardRoute(segs) THEN Join(SliceFrom(path, Len(segs) - 1), "/") ELSE ""

Miss == [found |-> FALSE, index |-> 0, callback |-> NoCallback,
         params |-> <<>>, remainder |-> ""]

\* The routes of rt that match, by index.
Matching(rt, method, path) ==
    {i \in 1..Len(rt) : rt[i].method = method /\ RouteMatches(rt[i].segments, path)}

Min(S) == CHOOSE x \in S : \A y \in S : x <= y

\* RouteTable.match: the routes of the request's method in registration
\* order, the first that matches; none is a RoutingMiss.
Match(rt, method, path) ==
    LET hit == Matching(rt, method, path)
    IN  IF hit = {} THEN Miss
        ELSE LET i == Min(hit)
             IN  [found |-> TRUE, index |-> i, callback |-> rt[i].callback,
                  params |-> BindParams(rt[i].segments, path),
                  remainder |-> BindRemainder(rt[i].segments, path)]

(***************************************************************************)
(* Registration API (lib.rs).                                              *)
(***************************************************************************)

\* Edge::insert with the new route taking the place of an equal earlier one.
insert_replacing(rt, method, path, callback) ==
    RouterInsertReplacing(rt, method, path, callback)

\* Edge::insert
insert(rt, method, path, callback) == RouterInsert(rt, method, path, callback)

\* Edge::get, post and head with the method of another of the five.
get_as_post(rt, path, callback) == insert(rt, "Post", path, InstanceCallback(callback))
post_as_get(rt, path, callback) == insert(rt, "Get", path, InstanceCallback(callback))
head_as_get(rt, path, callback) == insert(rt, "Get", path, InstanceCallback(callback))

\* Edge::get, post, put, delete, head: an instance callback under one method.
get(rt, path, callback) == insert(rt, "Get", path, InstanceCallback(callback))
post(rt, path, callback) == insert(rt, "Post", path, InstanceCallback(callback))
put(rt, path, callback) == insert(rt, "Put", path, InstanceCallback(callback))
delete(rt, path, callback) == insert(rt, "Delete", path, InstanceCallback(callback))
head(rt, path, callback) == insert(rt, "Head", path, InstanceCallback(callback))

\* Edge::get_static: a static callback, for GET requests.
get_static(rt, path, callback) == insert(rt, "Get", path, StaticCallback(callback))

(***************************************************************************)
(* Response writer (response.rs, modelled from sections 3 and 4.6): the    *)
(* states Building, Streaming, Committed, and what has gone out on the     *)
(* connection: heads (response heads written), out_status, out_headers,    *)
(* body, closed.  log is the history of append calls, in call order.       *)
(***************************************************************************)

NewResponse ==
    [state |-> "Building", status |-> 200, headers |-> {},
     heads |-> 0, out_status |-> 0, out_headers |-> {}, body |-> "",
     closed |-> FALSE, log |-> <<>>]

\* What the peer has received.
Sent(w) == <<w.heads, w.out_status, w.out_headers, w.body, w.closed>>

SetStatus(w, status) ==
    IF w.state = "Building" THEN [w EXCEPT !.status = status] ELSE w

SetHeader(w, header) ==
    IF w.state = "Building" THEN [w EXCEPT !.headers = @ \cup {header}] ELSE w

\* content_type(mime) sets the Content-Type header.
ContentType(w, mime) == SetHeader(w, "Content-Type: " \o mime)

\* send(bytes) that writes a response whatever the state of the writer.
Send_in_any_state(w, body) ==
    [w EXCEPT !.state = "Committed", !.heads = @ + 1, !.out_status = w.status,
              !.out_headers = w.headers, !.body = body, !.closed = TRUE]

\* send(bytes): Building -> Committed, the whole response goes out; any other
\* state refuses the write.
Send(w, body) ==
    IF w.state = "Building"
    THEN [w EXCEPT !.state = "Committed", !.heads = @ + 1, !.out_status = w.status,
                   !.out_headers = w.headers, !.body = body, !.closed = TRUE]
    ELSE w

\* redirect(url, status?): Location header, a 3xx status, empty body, commit.
Redirect(w, url, status) ==
    Send(SetStatus(SetHeader(w, "Location: " \o url), status), "")

\* sendFile(path): the file's bytes as the body, or a not-found response.
SendFile(w, path, found) ==
    IF found THEN Send(w, "bytes of " \o path) ELSE Send(SetStatus(w, 404), "")

\* render(name, data): the rendered text, or an internal-error response.
Render(w, text, rendered) ==
    IF rendered THEN Send(w, text) ELSE Send(SetStatus(w, 500), "")

\* handle(closure): Ok(status) answers with that status, Err((status, message))
\* with that status and the message as body.
Handle(w, result) ==
    IF result.ok THEN Send(SetStatus(w, result.status), "")
    ELSE Send(SetStatus(w, result.status), result.message)

\* stream(): Building -> Streaming, once; the head goes out, the body stays open.
Stream(w) ==
    IF w.state = "Building"
    THEN [w EXCEPT !.state = "Streaming", !.heads = @ + 1, !.out_status = w.status,
                   !.out_headers = w.headers]
    ELSE w

\* append(bytes): written to the connection at once, after what was written.
AppendChunk(w, chunk) ==
    IF w.state = "Streaming"
    THEN [w EXCEPT !.body = @ \o chunk, !.log = Append(@, chunk)]
    ELSE w

\* Drop of the streaming handle: Streaming -> Committed, the connection is
\* finalized.
DropStreaming(w) ==
    IF w.state = "Streaming" THEN [w EXCEPT !.state = "Committed", !.closed = TRUE] ELSE w

(***************************************************************************)
(* The example applications: MyApp (basic.rs) and AsyncHello (lib.rs).     *)
(* A callback is run a stretch at a time: pc counts the stretches done,    *)
(* a stretch ends where the callback sleeps, spawns a thread or returns.   *)
(* Each callback yields the writer, the COUNTER value and what comes next. *)
(***************************************************************************)

Digits == <<"0", "1", "2", "3", "4", "5", "6", "7", "8", "9">>

\* format!("{}", n)
RECURSIVE NatStr(_)
NatStr(n) == IF n < 10 THEN Digits[n + 1] ELSE NatStr(n \div 10) \o Digits[(n % 10) + 1]

\* Request::param(name): the value bound to the name, if any.
Param(params, name, default) ==
    IF \E i \in 1..Len(params) : params[i][1] = name
    THEN params[CHOOSE i \in 1..Len(params) : params[i][1] = name][2]
    ELSE default

Step(w, counter, next) == [w |-> w, counter |-> counter, next |-> next]

HomeBody == "<html><head><title>home</title></head><body><h1>Hello, world!</h1></body></html>"

\* MyApp::home
home(w, counter) ==
    Step(Send(SetHeader(ContentType(w, "text/html; charset=UTF-8"),
                        "Access-Control-Allow-Origin: *"),
              HomeBody),
         counter, "return")

\* MyApp::hello: fetch_add on the shared counter, then the template rendered
\* with first_name, last_name and the counter value read.
hello(w, counter, params, rendered) ==
    Step(Render(w, "hello " \o Param(params, "first_name", "John") \o " "
                     \o Param(params, "last_name", "Doe") \o " " \o NatStr(counter),
                rendered),
         counter + 1, "return")

\* MyApp::settings
settings(w, counter) ==
    Step(Send(ContentType(w, "text/html; charset=UTF-8"),
              "<html><head><title>Settings</title></head><body><h1>Settings</h1></body></html>"),
         counter, "return")

\* A login closure that lets the user name "error" in.
login_result_error_allowed(form) ==
    CASE form = "malformed" -> [ok |-> FALSE, status |-> 400, message |-> "malformed form"]
      [] OTHER              -> [ok |-> TRUE, status |-> 204, message |-> ""]

\* The closure of MyApp::login: a malformed form and the user name "error"
\* are Err((BadRequest, message)), anything else Ok(NoContent).
login_result(form) ==
    CASE form = "malformed" -> [ok |-> FALSE, status |-> 400, message |-> "malformed form"]
      [] form = "error"     -> [ok |-> FALSE, status |-> 400, message |-> "bad user name: error"]
      [] OTHER              -> [ok |-> TRUE, status |-> 204, message |-> ""]

\* MyApp::login; the cookie is set on the way to Ok.
login(w, counter, form) ==
    Step(Handle(IF form = "user" THEN SetHeader(w, "Set-Cookie: name") ELSE w,
                login_result(form)),
         counter, "return")

\* MyApp::redirect: sleeps three seconds, then redirects.
redirect(w, counter, pc) ==
    IF pc = 0 THEN Step(w, counter, "sleep")
    ELSE Step(Redirect(w, "http://google.com", 302), counter, "return")

\* MyApp::streaming with the first two chunks exchanged.
streaming_swapped(w, counter, pc) ==
    CASE pc = 0 -> Step(AppendChunk(Stream(w), "tata"), counter, "sleep")
      [] pc = 1 -> Step(AppendChunk(w, "toto"), counter, "sleep")
      [] OTHER  -> Step(DropStreaming(AppendChunk(w, "titi")), counter, "return")

\* MyApp::streaming that keeps its handle from being dropped.
streaming_leaking(w, counter, pc) ==
    CASE pc = 0 -> Step(AppendChunk(Stream(w), "toto"), counter, "sleep")
      [] pc = 1 -> Step(AppendChunk(w, "tata"), counter, "sleep")
      [] OTHER  -> Step(AppendChunk(w, "titi"), counter, "return")

\* MyApp::streaming: toto, a second's sleep, tata, a second's sleep, titi, and
\* the handle dropped at the end of the function.
streaming(w, counter, pc) ==
    CASE pc = 0 -> Step(AppendChunk(Stream(w), "toto"), counter, "sleep")
      [] pc = 1 -> Step(AppendChunk(w, "tata"), counter, "sleep")
      [] OTHER  -> Step(DropStreaming(AppendChunk(w, "titi")), counter, "return")

\* files: the whole request path taken for the file path.
files_path_whole(path) == Join(path, "/")

\* files: the file path under web/ is the request path without its first
\* segment.
files_path(path) == Join(SliceFrom(path, 1), "/")

\* files
files(w, counter, path, found) ==
    Step(SendFile(w, "web/" \o files_path(path), found), counter, "return")

\* AsyncHello::hello: the response moves to a spawned thread, the handler
\* returns at once; the thread sleeps a second and sends.
async_hello(w, counter, pc) ==
    IF pc = 0 THEN Step(w, counter, "spawned")
    ELSE Step(Send(ContentType(w, "text/plain"), "Hello, world!"), counter, "return")

\* The callback a route names, run for one stretch.
Invoke(id, w, counter, pc, req, params, outcome) ==
    CASE id = "MyApp::home"        -> home(w, counter)
      [] id = "MyApp::hello"       -> hello(w, counter, params, outcome)
      [] id = "MyApp::settings"    -> settings(w, counter)
      [] id = "MyApp::login"       -> login(w, counter, req.form)
      [] id = "MyApp::redirect"    -> redirect(w, counter, pc)
      [] id = "MyApp::streaming"   -> streaming(w, counter, pc)
      [] id = "files"              -> files(w, counter, PathSegments(req.path), outcome)
      [] id = "AsyncHello::hello"  -> async_hello(w, counter, pc)
      [] OTHER                     -> Step(w, counter, "return")

\* A hook that rewrites the request and writes a field of the instance.
before_rewriting(app, req) ==
    [app |-> [app EXCEPT !.scratch = @ + 1], req |-> [req EXCEPT !.form = "rewritten"]]

\* Middleware::before, the default of lib.rs: an empty body, the request and
\* the instance stay as they are.
before(app, req) == [app |-> app, req |-> req]

\* MyApp::before: prints the path of the request.
MyApp_before(app, req) == [app |-> app, req |-> req]

\* The hook called on the instance: the one the application registered, or
\* the default.
RunHook(hook, app, req) ==
    IF hook = "MyApp::before" THEN MyApp_before(app, req) ELSE before(app, req)

\* main (basic.rs): the registrations, in order.
BasicCalls ==
    << [api |-> "get", path |-> <<"/">>, callback |-> "MyApp::home"],
       [api |-> "get", path |-> <<"/", "hello", "/", ":", "first_name", "/", ":", "last_name">>,
        callback |-> "MyApp::hello"],
       [api |-> "get", path |-> <<"/", "settings">>, callback |-> "MyApp::settings"],
       [api |-> "get", path |-> <<"/", "redirect">>, callback |-> "MyApp::redirect"],
       [api |-> "get", path |-> <<"/", "streaming">>, callback |-> "MyApp::streaming"],
       [api |-> "post", path |-> <<"/", "login">>, callback |-> "MyApp::login"],
       [api |-> "get_static", path |-> <<"/", "static">>, callback |-> "files"] >>

\* main of the asynchronous example (lib.rs).
AsyncHelloCalls ==
    << [api |-> "get", path |-> <<"/">>, callback |-> "AsyncHello::hello"] >>

\* One registration call made on a table.
Register(rt, c) ==
    CASE c.api = "get"        -> get(rt, c.path, c.callback)
      [] c.api = "post"       -> post(rt, c.path, c.callback)
      [] c.api = "put"        -> put(rt, c.path, c.callback)
      [] c.api = "delete"     -> delete(rt, c.path, c.callback)
      [] c.api = "head"       -> head(rt, c.path, c.callback)
      [] OTHER                -> get_static(rt, c.path, c.callback)

RECURSIVE RegisterAll(_, _)
RegisterAll(rt, cs) ==
    IF cs = <<>> THEN rt ELSE RegisterAll(Register(rt, Head(cs)), Tail(cs))

\* Edge::new and Router::new: no route, the default hook.
Edge_new == [routes |-> <<>>, middleware |-> "Middleware::before"]
Router_new == [routes |-> <<>>, middleware |-> "Middleware::before"]

\* router.add_middleware(hook)
add_middleware(router, hook) == [router EXCEPT !.middleware = hook]

\* The segments a mount prefix puts before a pattern: "/" puts none.
PrefixSegments(prefix) == SelectSeq(ParsePattern(prefix), LAMBDA seg : seg.name # "")

\* edge.mount(prefix, router): the routes of the router, in their order and
\* under the prefix, and its hook become those of the Edge.
mount(edge, prefix, router) ==
    [routes |-> edge.routes
                  \o [i \in 1..Len(router.routes) |->
                         [router.routes[i] EXCEPT !.segments = PrefixSegments(prefix) \o @]],
     middleware |-> router.middleware]

\* main (basic.rs): the registrations on a Router, the hook added to it, the
\* router mounted on the Edge at "/".
BasicMain ==
    mount(Edge_new, <<"/">>,
          add_middleware([Router_new EXCEPT !.routes = RegisterAll(@, BasicCalls)],
                         "MyApp::before"))

\* main of the asynchronous example (lib.rs): the registration on the Edge.
AsyncHelloMain == [Edge_new EXCEPT !.routes = RegisterAll(@, AsyncHelloCalls)]

\* The Edge value main starts.
Main(cs) == IF cs = BasicCalls THEN BasicMain ELSE AsyncHelloMain

VARIABLES routes, calls, lookup, phase, cpus, srv, heap, counter, conns, queue, running

routevars == <<routes, calls, lookup>>
servevars == <<phase, cpus, srv, heap, counter, conns, queue, running>>
vars == <<routes, calls, lookup, phase, cpus, srv, heap, counter, conns, queue, running>>

(***************************************************************************)
(* Serving state.  phase is "built" until start or start_with is called.   *)
(* heap holds the application instances: object 0 is the seed start_with   *)
(* is given, the others are the per-request instances.  counter is the     *)
(* static COUNTER every MyApp holds a handle to.  conns are the            *)
(* connections in order of arrival, queue and running are the worker pool. *)
(* srv is what start and start_with set up: the bound socket, the pool and *)
(* the listener threads with their clones of the socket.                   *)
(***************************************************************************)

Conns == DOMAIN conns
Objects == DOMAIN heap
NoApp == MaxReq + MaxStall + 1

\* The plain field of the seed handed to start_with.
SeedValues == {7}

Dead == [live |-> FALSE, scratch |-> 0]

\* MyApp::default; the counter field is a handle to COUNTER, scratch stands
\* for the fields an application type owns by value.
T_default == [live |-> TRUE, scratch |-> 0]

\* T::clone
Clone(obj) == [live |-> TRUE, scratch |-> obj.scratch]

\* num_cpus::get() / 2 threads, none on a single CPU.
num_threads_unfloored(n) == n \div 2

\* max(num_cpus::get() / 2, 1)
num_threads(n) == IF n \div 2 >= 1 THEN n \div 2 ELSE 1

\* Before start: nothing bound, no pool, no listener thread.
NoServer == [pc |-> "idle", bound |-> [fd |-> 0, of |-> ""], pool |-> 0, listeners |-> <<>>]

\* HttpListener::bind(&addr): the one listening socket.
HttpListener_bind == [fd |-> 0, of |-> "addr"]

\* listener.try_clone(): a new descriptor of the same socket.
try_clone(sock, fd) == [fd |-> fd, of |-> sock.of]

\* Pool::new(n): a pool of n worker threads.
Pool_new(n) == n

\* for i in 0..num_threads: a clone of the socket, and a thread serving on it.
Spawned(n, sock) == [i \in 1..n |-> [socket |-> try_clone(sock, i), live |-> TRUE]]

\* The set-up of start and start_with on a machine of n CPUs.
Started(n) ==
    LET sock == HttpListener_bind
        threads == num_threads(n)
    IN  [pc |-> "serving", bound |-> sock, pool |-> Pool_new(threads),
         listeners |-> Spawned(threads, sock)]

\* The listener threads that are serving.
Listeners == {i \in DOMAIN srv.listeners : srv.listeners[i].live}

\* A free place for a new object.
Alloc(h) == Min({i \in DOMAIN h \ {0} : ~h[i].live} \cup {Cardinality(DOMAIN h) - 1})

\* start with one instance kept and handed to every request.
start_app_kept(h) ==
    IF \E i \in DOMAIN h \ {0} : h[i].live
    THEN [id |-> Min({i \in DOMAIN h \ {0} : h[i].live}), heap |-> h]
    ELSE [id |-> 1, heap |-> [h EXCEPT ![1] = T_default]]

\* start: let app = T::default(), in the closure run for every request.
start_app(h) ==
    LET id == Alloc(h) IN [id |-> id, heap |-> [h EXCEPT ![id] = T_default]]

\* start_with with the seed itself handed to the request.
start_with_app_seed(h) == [id |-> 0, heap |-> h]

\* start_with: app.clone(), in the closure run for every request.
start_with_app(h) ==
    LET id == Alloc(h) IN [id |-> id, heap |-> [h EXCEPT ![id] = Clone(h[0])]]

\* The instance goes when its owner is done with it.
Drop(h, id) == IF id \in DOMAIN h THEN [h EXCEPT ![id] = Dead] ELSE h

\* A write to a field of the instance through &mut self.
Touch(h, id) == IF id \in DOMAIN h THEN [h EXCEPT ![id].scratch = @ + 1] ELSE h

Req(m, p, form) == [method |-> m, path |-> p, form |-> form]
NoReq == Req("", <<>>, "")

\* The requests that arrive at the basic example.
BasicRequests ==
    { Req("Get", <<"/">>, ""),
      Req("Get", <<"/", "hello", "/", "Jane", "/", "Doe">>, ""),
      Req("Get", <<"/", "hello">>, ""),
      Req("Get", <<"/", "redirect">>, ""),
      Req("Get", <<"/", "streaming">>, ""),
      Req("Post", <<"/", "login">>, "user"),
      Req("Post", <<"/", "login">>, "error"),
      Req("Post", <<"/", "login">>, "malformed"),
      Req("Get", <<"/", "static", "/", "css", "/", "site.css">>, "") }

\* The requests that arrive at the asynchronous example.
AsyncHelloRequests ==
    { Req("Get", <<"/">>, ""),
      Req("Get", <<"/", "hello">>, ""),
      Req("Post", <<"/">>, "") }

Requests == IF calls = BasicCalls THEN BasicRequests ELSE AsyncHelloRequests

\* The CPU counts the serving runs are checked with: one listener and one
\* worker, two listeners and two workers.
CpuCounts == {1, 4}

NewConn ==
    [st |-> "new", req |-> NoReq, route |-> 0, params |-> <<>>,
     app |-> NoApp, pc |-> 0, w |-> NewResponse,
     tasks |-> 0, hooks |-> 0, invoked |-> 0, late |-> FALSE]

NoLookup == [done |-> FALSE, method |-> "Get", path |-> <<>>, result |-> Miss]

\* Before start, with room for n connections and their instances.
ServeIdleOf(n) ==
    /\ phase = "built"
    /\ srv = NoServer
    /\ heap = [i \in 0..n |-> Dead]
    /\ counter = 0
    /\ conns = [r \in 1..n |-> NewConn]
    /\ queue = <<>>
    /\ running = {}

ServeIdle == ServeIdleOf(MaxReq)

\* Registration on a new Edge value.
RouteInit ==
    /\ routes = <<>>
    /\ calls = <<>>
    /\ lookup = NoLookup
    /\ cpus = 1
    /\ ServeIdle

\* The callbacks a registration may pass: function items are opaque, and the
\* k-th call passing the k-th function tells every registration apart.
Handlers == {Len(calls) + 1}

\* start(&mut self), start_with(&mut self, app): the Edge value is borrowed
\* exclusively from the call to its return.
Borrowed == srv.pc = "serving"

\* Registration needs exclusive access to the Edge value, which serving holds
\* from its first lookup on.
RegisteredCall(c, rt) ==
    /\ ~Borrowed
    /\ ~lookup.done
    /\ Len(calls) < MaxRoutes
    /\ routes' = rt
    /\ calls' = Append(calls, c)
    /\ UNCHANGED lookup
    /\ UNCHANGED servevars

Registered(api, rt, path, cb) ==
    RegisteredCall([api |-> api, path |-> path, callback |-> cb], rt)

\* The methods and callbacks handed to Edge::insert itself: any hyper::Method
\* with an Instance or a Static callback, here a Static one under a method
\* other than Get and a method that has no function of its own.
InsertCalls ==
    { [method |-> "Post", kind |-> "Static"],
      [method |-> "Options", kind |-> "Instance"] }

\* edge.insert(method, path, callback)
RegisterInsert ==
    \E mk \in InsertCalls, p \in PatternStrings, cb \in Handlers :
        LET callback == IF mk.kind = "Static" THEN StaticCallback(cb) ELSE InstanceCallback(cb)
        IN  RegisteredCall([api |-> "insert", method |-> mk.method, kind |-> mk.kind,
                            path |-> p, callback |-> cb],
                           insert(routes, mk.method, p, callback))

RegisterGet ==
    \E p \in PatternStrings, cb \in Handlers : Registered("get", get(routes, p, cb), p, cb)
RegisterPost ==
    \E p \in PatternStrings, cb \in Handlers : Registered("post", post(routes, p, cb), p, cb)
RegisterPut ==
    \E p \in PatternStrings, cb \in Handlers : Registered("put", put(routes, p, cb), p, cb)
RegisterDelete ==
    \E p \in PatternStrings, cb \in Handlers : Registered("delete", delete(routes, p, cb), p, cb)
RegisterHead ==
    \E p \in PatternStrings, cb \in Handlers : Registered("head", head(routes, p, cb), p, cb)
RegisterStatic ==
    \E p \in PatternStrings, cb \in Handlers :
        Registered("get_static", get_static(routes, p, cb), p, cb)

\* One lookup: match(method, path) on the table as registered so far.
Lookup ==
    \E m \in Methods \cup {"Options"}, p \in PathStrings :
        /\ ~lookup.done
        /\ lookup' = [done |-> TRUE, method |-> m, path |-> p,
                      result |-> Match(routes, m, PathSegments(p))]
        /\ UNCHANGED <<routes, calls>>
        /\ UNCHANGED servevars

RouteNext ==
    \/ RegisterGet
    \/ RegisterPost
    \/ RegisterPut
    \/ RegisterDelete
    \/ RegisterHead
    \/ RegisterStatic
    \/ RegisterInsert
    \/ Lookup

SpecRoute == RouteInit /\ [][RouteNext]_vars

(***************************************************************************)
(* Serving (Edge::start, Edge::start_with; the accept loop and the worker  *)
(* closure of handler.rs are modelled from section 4.5).                   *)
(***************************************************************************)

\* The example applications, registered and ready to start.
Init ==
    /\ calls \in {BasicCalls, AsyncHelloCalls}
    /\ routes = Main(calls).routes
    /\ lookup = NoLookup
    /\ cpus \in CpuCounts
    /\ ServeIdle

Serving == phase \in {"start", "start_with"}

\* Edge::start
Start ==
    /\ phase = "built"
    /\ phase' = "start"
    /\ srv' = Started(cpus)
    /\ UNCHANGED <<routes, calls, lookup, cpus, heap, counter, conns, queue, running>>

\* Edge::start_with(app)
StartWith ==
    \E v \in SeedValues :
        /\ phase = "built"
        /\ phase' = "start_with"
        /\ srv' = Started(cpus)
        /\ heap' = [heap EXCEPT ![0] = [live |-> TRUE, scratch |-> v]]
        /\ UNCHANGED <<routes, calls, lookup, cpus, counter, conns, queue, running>>

\* A listener takes a connection: the closure given to Server::handle makes
\* the application instance and the EdgeHandler that owns it.
\* A listener that takes a connection only while a worker is free.
AcceptBy_when_worker_free(l, r) ==
    /\ Serving
    /\ l \in Listeners
    /\ Cardinality(running) < srv.pool
    /\ conns[r].st = "new"
    /\ \A q \in 1..(r - 1) : conns[q].st # "new"
    /\ LET made == IF phase = "start" THEN start_app(heap) ELSE start_with_app(heap)
       IN  /\ heap' = made.heap
           /\ conns' = [conns EXCEPT ![r] =
                           [@ EXCEPT !.st = "accepted", !.app = made.id]]
    /\ UNCHANGED <<routes, calls, lookup, phase, cpus, srv, counter, queue, running>>

\* Listener l takes connection r, the next to arrive.
AcceptBy(l, r) ==
    /\ Serving
    /\ l \in Listeners
    /\ conns[r].st = "new"
    /\ \A q \in 1..(r - 1) : conns[q].st # "new"
    /\ LET made == IF phase = "start" THEN start_app(heap) ELSE start_with_app(heap)
       IN  /\ heap' = made.heap
           /\ conns' = [conns EXCEPT ![r] =
                           [@ EXCEPT !.st = "accepted", !.app = made.id]]
    /\ UNCHANGED <<routes, calls, lookup, phase, cpus, srv, counter, queue, running>>

Accept == \E l \in DOMAIN srv.listeners, r \in Conns : AcceptBy(l, r)

\* The accept loop that hands every request to the pool.
route_outcome_always_submit(found) == "submit"

\* The accept loop's choice on a parsed request: a match is submitted to the
\* pool, a miss is answered with 404 on the spot.
route_outcome(found) == IF found THEN "submit" ELSE "not_found"

\* The request is parsed and routed by the listener that took the connection.
OnRequestOf(r, req) ==
    /\ conns[r].st = "accepted"
    /\ LET m == Match(routes, req.method, PathSegments(req.path))
       IN  IF route_outcome(m.found) = "submit"
           THEN /\ conns' = [conns EXCEPT ![r] =
                                [@ EXCEPT !.st = "queued", !.req = req, !.route = m.index,
                                          !.params = m.params, !.tasks = @ + 1]]
                /\ queue' = Append(queue, r)
                /\ heap' = heap
           ELSE /\ conns' = [conns EXCEPT ![r] =
                                [@ EXCEPT !.st = "done", !.req = req, !.route = 0,
                                          !.app = NoApp,
                                          !.w = Send(SetStatus(@, 404), "")]]
                /\ queue' = queue
                /\ heap' = Drop(heap, conns[r].app)
    /\ UNCHANGED <<routes, calls, lookup, phase, cpus, srv, counter, running>>

OnRequest == \E r \in Conns, req \in Requests : OnRequestOf(r, req)

\* The hook of the Edge that is served.
Hook == Main(IF calls = BasicCalls THEN BasicCalls ELSE AsyncHelloCalls).middleware

CallbackId(c) == IF c.route \in 1..Len(routes) THEN routes[c.route].callback.id ELSE ""

\* A worker that stays taken when its callback has returned.
Stretch_worker_kept(r, c, step, h) ==
    /\ counter' = step.counter
    /\ CASE step.next = "sleep" ->
              /\ conns' = [conns EXCEPT ![r] =
                              [c EXCEPT !.st = "running", !.pc = @ + 1, !.w = step.w]]
              /\ running' = running \cup {r}
              /\ heap' = h
         [] step.next = "spawned" ->
              /\ conns' = [conns EXCEPT ![r] =
                              [c EXCEPT !.st = "detached", !.pc = @ + 1, !.w = step.w,
                                        !.app = NoApp]]
              /\ running' = running \ {r}
              /\ heap' = Drop(h, c.app)
         [] OTHER ->
              /\ conns' = [conns EXCEPT ![r] =
                              [c EXCEPT !.st = "done", !.pc = @ + 1, !.w = step.w,
                                        !.app = NoApp]]
              /\ running' = running
              /\ heap' = Drop(h, c.app)

\* One stretch of the callback of connection r, and where it leaves r.
Stretch(r, c, step, h) ==
    /\ counter' = step.counter
    /\ CASE step.next = "sleep" ->
              /\ conns' = [conns EXCEPT ![r] =
                              [c EXCEPT !.st = "running", !.pc = @ + 1, !.w = step.w]]
              /\ running' = running \cup {r}
              /\ heap' = h
         [] step.next = "spawned" ->
              /\ conns' = [conns EXCEPT ![r] =
                              [c EXCEPT !.st = "detached", !.pc = @ + 1, !.w = step.w,
                                        !.app = NoApp]]
              /\ running' = running \ {r}
              /\ heap' = Drop(h, c.app)
         [] OTHER ->
              /\ conns' = [conns EXCEPT ![r] =
                              [c EXCEPT !.st = "done", !.pc = @ + 1, !.w = step.w,
                                        !.app = NoApp]]
              /\ running' = running \ {r}
              /\ heap' = Drop(h, c.app)

\* A pool whose free worker takes the newest task.
Execute_newest_first ==
    \E r \in Conns, outcome \in BOOLEAN, touch \in BOOLEAN :
        /\ queue # <<>>
        /\ r = queue[Len(queue)]
        /\ Cardinality(running) < srv.pool
        /\ LET c0 == conns[r]
               mw == RunHook(Hook, heap[c0.app], c0.req)
               c  == [c0 EXCEPT !.req = mw.req, !.hooks = @ + 1, !.invoked = @ + 1]
               h  == [heap EXCEPT ![c0.app] = mw.app]
               step == Invoke(CallbackId(c), c.w, counter, 0, c.req, c.params, outcome)
           IN  Stretch(r, c, step, IF touch THEN Touch(h, c.app) ELSE h)
        /\ queue' = SubSeq(queue, 1, Len(queue) - 1)
        /\ UNCHANGED <<routes, calls, lookup, phase, cpus, srv>>

\* A free worker takes the oldest task: the middleware hook on the instance,
\* then the callback up to its first sleep or its return.  outcome is what
\* the template engine or the file read answers, touch whether the callback
\* writes a field of its instance.
Execute ==
    \E r \in Conns, outcome \in BOOLEAN, touch \in BOOLEAN :
        /\ queue # <<>>
        /\ r = Head(queue)
        /\ Cardinality(running) < srv.pool
        /\ LET c0 == conns[r]
               mw == RunHook(Hook, heap[c0.app], c0.req)
               c  == [c0 EXCEPT !.req = mw.req, !.hooks = @ + 1, !.invoked = @ + 1]
               h  == [heap EXCEPT ![c0.app] = mw.app]
               step == Invoke(CallbackId(c), c.w, counter, 0, c.req, c.params, outcome)
           IN  Stretch(r, c, step, IF touch THEN Touch(h, c.app) ELSE h)
        /\ queue' = Tail(queue)
        /\ UNCHANGED <<routes, calls, lookup, phase, cpus, srv>>

\* A sleeping callback wakes up on its worker and runs its next stretch.
Resume ==
    \E r \in Conns :
        /\ conns[r].st = "running"
        /\ LET c == conns[r]
               step == Invoke(CallbackId(c), c.w, counter, c.pc, c.req, c.params, TRUE)
           IN  Stretch(r, c, step, heap)
        /\ UNCHANGED <<routes, calls, lookup, phase, cpus, srv, queue>>

\* The thread a callback spawned wakes up and finishes the response.
SpawnedThread ==
    \E r \in Conns :
        /\ conns[r].st = "detached"
        /\ LET c == conns[r]
               step == Invoke(CallbackId(c), c.w, counter, c.pc, c.req, c.params, TRUE)
           IN  Stretch(r, c, step, heap)
        /\ UNCHANGED <<routes, calls, lookup, phase, cpus, srv, queue>>

\* The writes tried on a writer that is Committed: a status and a header, a
\* body, a chunk, a second stream and its close.
LateOp(w) ==
    DropStreaming(Stream(AppendChunk(
        Send(SetStatus(SetHeader(w, "X-Late: 1"), 500), "late"), "late")))

LateWrite ==
    \E r \in Conns :
        /\ conns[r].st = "done"
        /\ conns[r].w.state = "Committed"
        /\ ~conns[r].late
        /\ conns' = [conns EXCEPT ![r] = [@ EXCEPT !.w = LateOp(@), !.late = TRUE]]
        /\ UNCHANGED <<routes, calls, lookup, phase, cpus, srv, heap, counter, queue, running>>

Next ==
    \/ Start
    \/ StartWith
    \/ Accept
    \/ OnRequest
    \/ Execute
    \/ Resume
    \/ SpawnedThread
    \/ LateWrite

Spec == Init /\ [][Next]_vars

\* One listener and one worker.
FairInit == Init /\ cpus = 1

\* Serving under start, up to the end of every callback.
FairNext ==
    \/ Start
    \/ Accept
    \/ OnRequest
    \/ Execute
    \/ Resume
    \/ SpawnedThread

\* Serving with threads that are scheduled fairly: a worker that can take a
\* task takes it, a sleeping callback wakes up, a spawned thread runs on.
SpecFair ==
    /\ FairInit
    /\ [][FairNext]_vars
    /\ WF_vars(Execute)
    /\ WF_vars(Resume)
    /\ WF_vars(SpawnedThread)

(***************************************************************************)
(* The threads of start and start_with, for an application type whose      *)
(* constructor may panic and on any number of CPUs: listener threads end,  *)
(* the scopes are joined, the call returns.                                *)
(***************************************************************************)

MaxCpus == 5

\* The asynchronous example, ready to start on a machine of 1..MaxCpus CPUs.
StartInit ==
    /\ calls = AsyncHelloCalls
    /\ routes = Main(calls).routes
    /\ lookup = NoLookup
    /\ cpus \in 1..MaxCpus
    /\ ServeIdle

\* A connection a listener's server holds between accept and its request.
Held == {r \in Conns : conns[r].st = "accepted"}

\* The thread of listener l ends.
Ended(l) == [srv EXCEPT !.listeners[l].live = FALSE]

\* The connections the server of listener l may hold: which listener took a
\* connection is not kept, so any of the held ones, and all of them when l is
\* the one listener left.
HeldBy(l) == {S \in SUBSET Held : Listeners = {l} => S = Held}

\* T::default() or app.clone() panics in the closure given to Server::handle:
\* the panic unwinds the thread of the listener that took the connection, no
\* handler is made for the connection and nothing is written to it; the
\* connections that listener's server holds go with it, handlers and
\* instances dropped.
AcceptPanics ==
    \E l \in DOMAIN srv.listeners, r \in Conns :
        /\ Serving
        /\ l \in Listeners
        /\ conns[r].st = "new"
        /\ \A q \in 1..(r - 1) : conns[q].st # "new"
        /\ \E S \in HeldBy(l) :
              /\ conns' = [q \in Conns |->
                              IF q = r THEN [conns[q] EXCEPT !.st = "dropped"]
                              ELSE IF q \in S
                                   THEN [conns[q] EXCEPT !.st = "dropped", !.app = NoApp]
                                   ELSE conns[q]]
              /\ heap' = [i \in Objects |->
                             IF \E q \in S : conns[q].app = i THEN Dead ELSE heap[i]]
        /\ srv' = Ended(l)
        /\ UNCHANGED <<routes, calls, lookup, phase, cpus, counter, queue, running>>

\* Server::handle ends with an error and unwrap() panics: the thread of
\* listener l ends.  (Taken while its server holds no connection.)
ListenerExit ==
    \E l \in DOMAIN srv.listeners :
        /\ l \in Listeners
        /\ {} \in HeldBy(l)
        /\ srv' = Ended(l)
        /\ UNCHANGED <<routes, calls, lookup, phase, cpus, heap, counter, conns, queue, running>>

\* start that returns as soon as the listener threads have ended.
Return_before_pool ==
    /\ srv.pc = "serving"
    /\ Listeners = {}
    /\ srv' = [srv EXCEPT !.pc = "returned"]
    /\ heap' = IF phase = "start_with" THEN Drop(heap, 0) ELSE heap
    /\ UNCHANGED <<routes, calls, lookup, phase, cpus, counter, conns, queue, running>>

\* crossbeam::scope joins the listener threads, pool.scoped waits for the
\* tasks of the pool, then Ok(()) is returned; start_with owns the seed,
\* which is dropped as the call returns.
Return ==
    /\ srv.pc = "serving"
    /\ Listeners = {}
    /\ queue = <<>>
    /\ running = {}
    /\ srv' = [srv EXCEPT !.pc = "returned"]
    /\ heap' = IF phase = "start_with" THEN Drop(heap, 0) ELSE heap
    /\ UNCHANGED <<routes, calls, lookup, phase, cpus, counter, conns, queue, running>>

StartNext ==
    \/ RegisterGet
    \/ Start
    \/ StartWith
    \/ Accept
    \/ AcceptPanics
    \/ OnRequest
    \/ Execute
    \/ SpawnedThread
    \/ ListenerExit
    \/ Return

SpecStart == StartInit /\ [][StartNext]_vars

(***************************************************************************)
(* Callbacks that block: the basic example with room for MaxStall          *)
(* connections, reached by the request whose callback sleeps and by a      *)
(* request that misses.                                                    *)
(***************************************************************************)

\* A request of both examples that no registration accepts.
AMiss == Req("Get", <<"/", "hello">>, "")

StallRequests ==
    { Req("Get", <<"/", "redirect">>, ""), AMiss }

StallInit ==
    /\ calls = BasicCalls
    /\ routes = Main(calls).routes
    /\ lookup = NoLookup
    /\ cpus \in CpuCounts
    /\ ServeIdleOf(MaxStall)

OnStallRequest == \E r \in Conns, req \in StallRequests : OnRequestOf(r, req)

StallNext ==
    \/ Start
    \/ Accept
    \/ OnStallRequest
    \/ Execute
    \/ Resume

SpecStall == StallInit /\ [][StallNext]_vars

(***************************************************************************)
(* The response writer under any callback: one request whose callback has  *)
(* been started on a worker, and the writer operations the callback or a   *)
(* thread it spawned performs, in any order, up to MaxOps of them.         *)
(***************************************************************************)

WriterStatuses == {500}
WriterHeaders == {"X-A: 1"}
WriterBodies == {"a", "b"}

\* One matched request, its callback just started on the one worker.
WriterInit ==
    /\ calls = <<[api |-> "get", path |-> <<"/">>, callback |-> "callback"]>>
    /\ routes = RegisterAll(<<>>, calls)
    /\ lookup = NoLookup
    /\ cpus = 1
    /\ phase = "start"
    /\ srv = Started(cpus)
    /\ heap = [i \in 0..1 |-> IF i = 1 THEN T_default ELSE Dead]
    /\ counter = 0
    /\ conns = [r \in 1..1 |->
                  [NewConn EXCEPT !.st = "running", !.req = Req("Get", <<"/">>, ""),
                                  !.route = 1, !.app = 1, !.tasks = 1, !.hooks = 1,
                                  !.invoked = 1]]
    /\ queue = <<>>
    /\ running = {1}

\* The callback, or the thread it spawned, holds the writer.
WriterHeld(r) == conns[r].st \in {"running", "detached"}

\* One operation on the writer of request r, leaving the writer w.
Written(r, w) ==
    /\ WriterHeld(r)
    /\ conns[r].pc < MaxOps
    /\ conns' = [conns EXCEPT ![r] = [@ EXCEPT !.w = w, !.pc = @ + 1]]
    /\ UNCHANGED <<routes, calls, lookup, phase, cpus, srv, heap, counter, queue, running>>

OpSetStatus ==
    \E r \in Conns, status \in WriterStatuses : Written(r, SetStatus(conns[r].w, status))
OpSetHeader ==
    \E r \in Conns, header \in WriterHeaders : Written(r, SetHeader(conns[r].w, header))
OpSend ==
    \E r \in Conns, body \in WriterBodies : Written(r, Send(conns[r].w, body))
OpRedirect ==
    \E r \in Conns : Written(r, Redirect(conns[r].w, "/", 302))
OpSendFile ==
    \E r \in Conns, found \in BOOLEAN : Written(r, SendFile(conns[r].w, "site.css", found))
OpStream ==
    \E r \in Conns : Written(r, Stream(conns[r].w))
OpAppend ==
    \E r \in Conns, chunk \in WriterBodies : Written(r, AppendChunk(conns[r].w, chunk))
OpDrop ==
    \E r \in Conns : Written(r, DropStreaming(conns[r].w))

\* The callback moves the writer into a thread it spawns and returns.
CallbackSpawns ==
    \E r \in Conns :
        /\ conns[r].st = "running"
        /\ conns' = [conns EXCEPT ![r] = [@ EXCEPT !.st = "detached", !.app = NoApp]]
        /\ running' = running \ {r}
        /\ heap' = Drop(heap, conns[r].app)
        /\ UNCHANGED <<routes, calls, lookup, phase, cpus, srv, counter, queue>>

\* The holder of the writer ends: the writer goes out of scope, and with it
\* the streaming handle, if one is open.
HolderEnds ==
    \E r \in Conns :
        /\ WriterHeld(r)
        /\ conns' = [conns EXCEPT ![r] =
                        [@ EXCEPT !.st = "done", !.w = DropStreaming(@), !.app = NoApp]]
        /\ running' = running \ {r}
        /\ heap' = Drop(heap, conns[r].app)
        /\ UNCHANGED <<routes, calls, lookup, phase, cpus, srv, counter, queue>>

WriterNext ==
    \/ OpSetStatus
    \/ OpSetHeader
    \/ OpSend
    \/ OpRedirect
    \/ OpSendFile
    \/ OpStream
    \/ OpAppend
    \/ OpDrop
    \/ CallbackSpawns
    \/ HolderEnds

SpecWriter == WriterInit /\ [][WriterNext]_vars

(***************************************************************************)
(* Properties of the route table.                                          *)
(***************************************************************************)

\* What a registration call asks for, read off the call itself.
MethodOf(api) ==
    CASE api = "post"   -> "Post"
      [] api = "put"    -> "Put"
      [] api = "delete" -> "Delete"
      [] api = "head"   -> "Head"
      [] OTHER          -> "Get"

CallMethod(c) == IF c.api = "insert" THEN c.method ELSE MethodOf(c.api)

CallPattern(c) == ParsePattern(c.path)
CallIsStatic(c) == c.api = "get_static" \/ (c.api = "insert" /\ c.kind = "Static")
LookupPath == PathSegments(lookup.path)

\* The positions of the Param segments of a pattern, in pattern order.
ParamIdx(segs) ==
    SelectSeq([j \in 1..Len(segs) |-> j], LAMBDA j : segs[j].kind = "Param")

\* Call c, taken alone, accepts the path.
CallAccepts(c, path) ==
    LET pat == CallPattern(c)
    IN  /\ IF CallIsStatic(c) THEN Len(path) >= Len(pat) ELSE Len(path) = Len(pat)
        /\ \A j \in 1..Len(pat) :
              IF pat[j].kind = "Param" THEN path[j] # "" ELSE pat[j].name = path[j]

HelloPattern == <<"/", "hello", "/", ":", "first_name", "/", ":", "last_name">>
JaneDoe == <<"/", "hello", "/", "Jane", "/", "Doe">>

\* C3: a hit on a route registered with an instance callback means equal
\* segment counts, equal Literals, non-empty Param values, and the params are
\* the (name, value) pairs in pattern order; GET /hello/Jane/Doe on
\* /hello/:first_name/:last_name binds Jane and Doe, GET /hello misses it.
C3_NonWildcardMatch ==
    lookup.done =>
      /\ (lookup.result.found /\ ~CallIsStatic(calls[lookup.result.index])) =>
           LET pat == CallPattern(calls[lookup.result.index])
               idx == ParamIdx(pat)
           IN  /\ Len(LookupPath) = Len(pat)
               /\ \A j \in 1..Len(pat) :
                     /\ pat[j].kind = "Literal" => pat[j].name = LookupPath[j]
                     /\ pat[j].kind = "Param" => LookupPath[j] # ""
               /\ lookup.result.params =
                     [k \in 1..Len(idx) |-> <<pat[idx[k]].name, LookupPath[idx[k]]>>]
      /\ (/\ calls # <<>>
          /\ calls[1].api = "get"
          /\ calls[1].path = HelloPattern
          /\ lookup.method = "Get") =>
           /\ lookup.path = JaneDoe =>
                /\ lookup.result.found
                /\ lookup.result.index = 1
                /\ lookup.result.params =
                      << <<"first_name", "Jane">>, <<"last_name", "Doe">> >>
           /\ lookup.path = <<"/", "hello">> => lookup.result.index # 1

C3_Witness ==
    /\ lookup.done
    /\ lookup.result.found
    /\ lookup.path = JaneDoe
    /\ ~CallIsStatic(calls[lookup.result.index])
    /\ lookup.result.params = << <<"first_name", "Jane">>, <<"last_name", "Doe">> >>

\* C4: a GET whose leading segments equal a static mount's prefix is a hit,
\* and when the mount is the route selected the remainder is the segments
\* after the prefix joined with "/" (empty for the prefix itself); for a
\* one-segment mount such as /static that is what files computes.
C4_StaticRemainder ==
    lookup.done =>
      /\ \A i \in 1..Len(calls) :
           (/\ calls[i].api = "get_static"
            /\ lookup.method = "Get"
            /\ LET pat == CallPattern(calls[i])
               IN  /\ Len(LookupPath) >= Len(pat)
                   /\ \A j \in 1..Len(pat) :
                         /\ pat[j].kind = "Literal"
                         /\ pat[j].name = LookupPath[j]) =>
              /\ lookup.result.found
              /\ lookup.result.index <= i
      /\ (lookup.result.found /\ CallIsStatic(calls[lookup.result.index])) =>
           LET n == Len(CallPattern(calls[lookup.result.index]))
               rest == [k \in 1..(Len(LookupPath) - n) |-> LookupPath[n + k]]
           IN  /\ lookup.result.remainder = Join(rest, "/")
               /\ Len(LookupPath) = n => lookup.result.remainder = ""
               /\ n = 1 => files_path(LookupPath) = lookup.result.remainder

C4_Witness ==
    /\ lookup.done
    /\ lookup.result.found
    /\ CallIsStatic(calls[lookup.result.index])
    /\ calls[lookup.result.index].path = <<"/", "static">>
    /\ lookup.path = <<"/", "static", "/", "css", "/", "site.css">>
    /\ lookup.result.remainder = "css/site.css"
    /\ files_path(LookupPath) = "css/site.css"

\* C5: every registration stays in the table at its place with its callback,
\* and a hit is the earliest registration of the method that accepts the path.
C5_FirstRegisteredWins ==
    /\ Len(routes) = Len(calls)
    /\ \A i \in 1..Len(calls) :
          /\ routes[i].callback.id = calls[i].callback
          /\ routes[i].method = CallMethod(calls[i])
    /\ (lookup.done /\ lookup.result.found) =>
          /\ lookup.result.index \in 1..Len(calls)
          /\ lookup.result.callback.id = calls[lookup.result.index].callback
          /\ CallMethod(calls[lookup.result.index]) = lookup.method
          /\ CallAccepts(calls[lookup.result.index], LookupPath)
          /\ \A j \in 1..(lookup.result.index - 1) :
                ~(/\ CallMethod(calls[j]) = lookup.method
                  /\ CallAccepts(calls[j], LookupPath))

\* Two routes of one method accept the path and the first one is selected.
C5_Witness ==
    /\ lookup.done
    /\ lookup.result.found
    /\ lookup.result.index = 1
    /\ Len(calls) >= 2
    /\ CallMethod(calls[2]) = lookup.method
    /\ CallAccepts(calls[2], LookupPath)

IsLiteralCall(c) ==
    /\ ~CallIsStatic(c)
    /\ LET pat == CallPattern(c) IN \A j \in 1..Len(pat) : pat[j].kind = "Literal"

\* The path is the call's literal pattern, segment for segment.
LiteralHit(i) ==
    /\ CallMethod(calls[i]) = lookup.method
    /\ IsLiteralCall(calls[i])
    /\ LET pat == CallPattern(calls[i])
       IN  LookupPath = [j \in 1..Len(pat) |-> pat[j].name]

\* C6 as stated: a literal route's own path always yields that route's
\* handler, whatever was registered before or after it.
C6_LiteralAlwaysOwnHandler ==
    lookup.done =>
      \A i \in 1..Len(calls) :
          LiteralHit(i) =>
            /\ lookup.result.found
            /\ lookup.result.callback = InstanceCallback(calls[i].callback)

\* C6 amended: a literal route's own path yields that route's handler when no
\* route registered earlier under the same method accepts the path; routes
\* registered later or under another method never change that.
C6_LiteralOwnHandlerUnlessEarlier ==
    lookup.done =>
      \A i \in 1..Len(calls) :
          (/\ LiteralHit(i)
           /\ \A j \in 1..(i - 1) :
                 ~(/\ CallMethod(calls[j]) = lookup.method
                   /\ CallAccepts(calls[j], LookupPath))) =>
            /\ lookup.result.found
            /\ lookup.result.index = i
            /\ lookup.result.callback = InstanceCallback(calls[i].callback)

\* A literal route registered first, a route accepting the same path after it.
C6_Witness ==
    /\ lookup.done
    /\ Len(calls) >= 2
    /\ LiteralHit(1)
    /\ CallAccepts(calls[2], LookupPath)
    /\ lookup.result.callback = InstanceCallback(calls[1].callback)

\* C7: a lookup misses exactly when no registration of the request's method
\* accepts the path, a hit is a route of the request's method, and a lookup
\* leaves the table as it was.
C7_MissExactly ==
    /\ [](lookup.done =>
            /\ lookup.result.found <=>
                  \E i \in 1..Len(calls) :
                      /\ CallMethod(calls[i]) = lookup.method
                      /\ CallAccepts(calls[i], LookupPath)
            /\ lookup.result.found =>
                  CallMethod(calls[lookup.result.index]) = lookup.method
            /\ ~lookup.result.found => lookup.result = Miss)
    /\ [][lookup' # lookup => routes' = routes /\ calls' = calls]_vars

\* A miss on a path that a route of another method accepts.
C7_Witness ==
    /\ lookup.done
    /\ ~lookup.result.found
    /\ \E i \in 1..Len(calls) :
          /\ CallMethod(calls[i]) # lookup.method
          /\ CallAccepts(calls[i], LookupPath)

(***************************************************************************)
(* Properties of serving.                                                  *)
(***************************************************************************)

\* For each example and each request: some registration, taken alone,
\* accepts the request.
Accepted ==
    [cs \in {BasicCalls, AsyncHelloCalls} |->
        [rq \in BasicRequests \cup AsyncHelloRequests |->
            \E i \in 1..Len(cs) :
                /\ CallMethod(cs[i]) = rq.method
                /\ CallAccepts(cs[i], PathSegments(rq.path))]]

\* The registrations accept the request of connection r.
Matched(r) == Accepted[calls][conns[r].req]

Parsed(r) == conns[r].st \notin {"new", "accepted"}

Responds == OpSend \/ OpRedirect \/ OpSendFile \/ OpStream

C2_StreamingOrder ==
    \A r \in Conns :
        /\ conns[r].w.log # <<>> => conns[r].w.body = Join(conns[r].w.log, "")
        /\ (Parsed(r) /\ CallbackId(conns[r]) = "MyApp::streaming") =>
              /\ (conns[r].st = "running" /\ conns[r].pc = 1) => conns[r].w.body = "toto"
              /\ (conns[r].st = "running" /\ conns[r].pc = 2) => conns[r].w.body = "tototata"
              /\ conns[r].st = "done" =>
                    /\ conns[r].w.log = <<"toto", "tata", "titi">>
                    /\ conns[r].w.body = "tototatatiti"

\* Two streams at once: the second is complete while the first is at toto.
C2_Witness ==
    /\ conns[1].st = "running"
    /\ CallbackId(conns[1]) = "MyApp::streaming"
    /\ conns[1].w.body = "toto"
    /\ conns[2].st = "done"
    /\ CallbackId(conns[2]) = "MyApp::streaming"
    /\ conns[2].w.body = "tototatatiti"

\* C8: a request no registration accepts is answered 404 by the accept loop
\* with no task, no middleware call and no callback; a task is submitted only
\* for a request that a registration accepts, and then exactly one.
C8_MissAnsweredByAcceptLoop ==
    \A r \in Conns :
        /\ Parsed(r) =>
              IF Matched(r)
              THEN conns[r].tasks = 1
              ELSE /\ conns[r].tasks = 0
                   /\ conns[r].hooks = 0
                   /\ conns[r].invoked = 0
                   /\ conns[r].st = "done"
                   /\ conns[r].w.heads = 1
                   /\ conns[r].w.out_status = 404
        /\ ~Parsed(r) => conns[r].tasks = 0
        /\ (\E i \in 1..Len(queue) : queue[i] = r) => (Parsed(r) /\ Matched(r))
        /\ r \in running => (Parsed(r) /\ Matched(r))

\* A miss answered while a matched request sits in the pool's queue.
C8_Witness ==
    \E r, q \in Conns :
        /\ conns[r].st = "done"
        /\ ~Matched(r)
        /\ conns[r].w.out_status = 404
        /\ conns[r].tasks = 0
        /\ conns[q].st = "queued"
        /\ conns[q].tasks = 1

HasApp(r) == conns[r].app # NoApp

\* The callbacks of MyApp::hello that have run.
HelloRuns ==
    Cardinality({r \in Conns : conns[r].invoked > 0 /\ CallbackId(conns[r]) = "MyApp::hello"})

\* C9: under start no seed exists, every request that has not run yet holds an
\* instance as T::default made it, no two requests hold the same instance,
\* and the one thing requests share is COUNTER, which counts every hello.
C9_FreshInstancePerRequest ==
    phase = "start" =>
        /\ ~heap[0].live
        /\ \A r \in Conns :
              /\ conns[r].st \in {"accepted", "queued", "running"} =>
                    (conns[r].app \in Objects \ {0} /\ heap[conns[r].app].live)
              /\ conns[r].st \in {"accepted", "queued"} => heap[conns[r].app] = T_default
        /\ \A r, q \in Conns : (r # q /\ HasApp(r) /\ HasApp(q)) => conns[r].app # conns[q].app
        /\ counter = HelloRuns

\* One request has written its instance's field, another starts with the
\* initial value.
C9_Witness ==
    /\ phase = "start"
    /\ \E r, q \in Conns :
          /\ conns[q].st = "running"
          /\ heap[conns[q].app].scratch = 1
          /\ conns[r].st = "accepted"
          /\ heap[conns[r].app].scratch = 0

\* C10: under start_with the seed is object 0 and no step changes it; every
\* request that has not run yet holds a clone whose value is the seed's, and
\* no request holds the seed or another request's clone.
C10_SeedClonedPerRequest ==
    /\ [](phase = "start_with" =>
            /\ heap[0].live
            /\ \A r \in Conns :
                  /\ HasApp(r) => (conns[r].app \in Objects \ {0} /\ heap[conns[r].app].live)
                  /\ conns[r].st \in {"accepted", "queued", "running"} => HasApp(r)
                  /\ conns[r].st \in {"accepted", "queued"} =>
                        heap[conns[r].app] = Clone(heap[0])
            /\ \A r, q \in Conns :
                  (r # q /\ HasApp(r) /\ HasApp(q)) => conns[r].app # conns[q].app)
    /\ [][phase = "start_with" => heap'[0] = heap[0]]_vars

\* A request has written its clone, the seed and a newer clone have the
\* seed's value.
C10_Witness ==
    /\ phase = "start_with"
    /\ heap[0].scratch = 7
    /\ \E r, q \in Conns :
          /\ conns[q].st = "running"
          /\ heap[conns[q].app].scratch = 8
          /\ conns[r].st = "accepted"
          /\ heap[conns[r].app].scratch = 7

(***************************************************************************)
(* Properties of the threads of start and start_with.                      *)
(***************************************************************************)

\* C11: once start or start_with has set the server up on n CPUs, it has
\* spawned max(n div 2, 1) listener threads and a pool of as many workers, at
\* least one of each (one and one on a single CPU), and the socket of every
\* listener is a clone, with a descriptor of its own, of the one bound socket.
C11_ThreadCounts ==
    srv.pc # "idle" =>
        /\ phase \in {"start", "start_with"}
        /\ Cardinality(DOMAIN srv.listeners) = (IF cpus \div 2 > 1 THEN cpus \div 2 ELSE 1)
        /\ srv.pool = Cardinality(DOMAIN srv.listeners)
        /\ srv.pool >= 1
        /\ cpus = 1 => (srv.pool = 1 /\ DOMAIN srv.listeners = {1})
        /\ Listeners \subseteq DOMAIN srv.listeners
        /\ \A i \in DOMAIN srv.listeners :
              /\ srv.listeners[i].socket.of = srv.bound.of
              /\ srv.listeners[i].socket.fd # srv.bound.fd
              /\ \A j \in DOMAIN srv.listeners :
                    i # j => srv.listeners[i].socket.fd # srv.listeners[j].socket.fd

\* A single CPU: the one listener has taken a connection and the one worker
\* has run its handler.
C11_Witness ==
    /\ cpus = 1
    /\ phase = "start"
    /\ Listeners = {1}
    /\ srv.pool = 1
    /\ \E r \in Conns : conns[r].invoked = 1

\* The connection a listener would take next.
NextConn(r) == conns[r].st = "new" /\ \A q \in 1..(r - 1) : conns[q].st # "new"

\* Every worker of the pool is in a callback that sleeps.
AllWorkersBlocked ==
    /\ Cardinality(running) = srv.pool
    /\ \A r \in running : CallbackId(conns[r]) = "MyApp::redirect"

\* C12: a callback that blocks holds its worker and nothing else.  Whatever
\* the workers and the queue hold, every listener can take the next
\* connection, a request that misses can be parsed on every taken connection
\* and is answered 404 in that very step, and a free worker can take the
\* oldest task.
C12_ListenersNeverStall ==
    Serving =>
        /\ \A l \in Listeners, r \in Conns : NextConn(r) => ENABLED AcceptBy(l, r)
        /\ \A r \in Conns :
              conns[r].st = "accepted" =>
                  /\ ~Accepted[calls][AMiss]
                  /\ ENABLED (/\ OnRequestOf(r, AMiss)
                              /\ conns'[r].st = "done"
                              /\ conns'[r].w.out_status = 404
                              /\ conns'[r].w.closed)
        /\ (queue # <<>> /\ Cardinality(running) < srv.pool) => ENABLED Execute

\* Every worker sleeps in a callback and a matched request waits in the
\* queue, while one connection is taken and its request not yet read, and
\* another is still to be taken.
C12_Witness ==
    /\ Serving
    /\ AllWorkersBlocked
    /\ queue # <<>>
    /\ \E r \in Conns : conns[r].st = "accepted"
    /\ \E r \in Conns : NextConn(r)

InQueue(r) == \E i \in 1..Len(queue) : queue[i] = r

\* C13: no more callbacks are in progress than the pool has workers; a
\* submitted request that has not started is in the queue, once, untouched;
\* a request leaves the queue only from its head, into a free worker, and the
\* queue changes only by an append at its end or the removal of its head.
C13_BoundedFifoPool ==
    /\ [](/\ Cardinality(running) <= srv.pool
          /\ \A r \in Conns :
                /\ r \in running <=> conns[r].st = "running"
                /\ InQueue(r) <=> conns[r].st = "queued"
                /\ conns[r].st = "queued" =>
                      /\ conns[r].invoked = 0
                      /\ conns[r].w = NewResponse
                      /\ HasApp(r)
          /\ \A i, j \in 1..Len(queue) : i # j => queue[i] # queue[j])
    /\ [][/\ \A r \in Conns :
                (conns[r].st = "queued" /\ conns'[r].st # "queued") =>
                    /\ r = Head(queue)
                    /\ queue' = Tail(queue)
                    /\ Cardinality(running) < srv.pool
                    /\ conns'[r].invoked = 1
          /\ \/ queue' = queue
             \/ queue # <<>> /\ queue' = Tail(queue)
             \/ \E r \in Conns : conns[r].st = "accepted" /\ queue' = Append(queue, r)]_vars

\* The one worker is held by the request submitted first, the second
\* connection; the first connection, submitted after it, waits in the queue.
C13_Witness ==
    /\ srv.pool = 1
    /\ running = {2}
    /\ queue = <<1>>
    /\ conns[1].invoked = 0
    /\ conns[2].invoked = 1

\* C14: an application instance exists for a connection only once its
\* request is parsed and a registration accepts it, so that creation follows
\* the route match and comes immediately before the hook: a connection whose
\* request is not yet routed, or misses, has no instance, and a matched
\* request that waits in the queue has not yet been given one; no two
\* connections hold the same instance, and a finished request holds none.
C14_InstanceCreatedAfterMatch ==
    /\ \A r \in Conns :
          /\ HasApp(r) => (Parsed(r) /\ Matched(r) /\ conns[r].hooks = 1)
          /\ conns[r].st = "done" => ~HasApp(r)
    /\ \A r, q \in Conns : (r # q /\ HasApp(r) /\ HasApp(q)) => conns[r].app # conns[q].app

\* C15: the hook has run once for a matched request whose callback has
\* started, together with that callback and not at all otherwise, never for a
\* request that misses; the hook of the examples returns the instance and
\* the request it was given, and the step that runs hook and callback leaves
\* the request as it arrived and writes no instance but the request's own.
C15_HookOncePerMatched ==
    /\ [](\A r \in Conns :
            /\ conns[r].hooks = conns[r].invoked
            /\ conns[r].hooks = (IF Parsed(r) /\ Matched(r) /\ conns[r].st # "queued"
                                  THEN 1 ELSE 0)
            /\ conns[r].st = "queued" =>
                  RunHook(Hook, heap[conns[r].app], conns[r].req)
                      = [app |-> heap[conns[r].app], req |-> conns[r].req])
    /\ [][\A r \in Conns :
            conns'[r].hooks # conns[r].hooks =>
                /\ conns[r].st = "queued"
                /\ r = Head(queue)
                /\ conns'[r].hooks = 1
                /\ conns'[r].invoked = 1
                /\ conns'[r].req = conns[r].req
                /\ \A i \in Objects : i # conns[r].app => heap'[i] = heap[i]
                /\ \A q \in Conns : q # r => conns'[q] = conns[q]]_vars

\* A matched request whose hook and callback have run, and a miss with
\* neither.
C15_Witness ==
    \E r, q \in Conns :
        /\ conns[r].st = "done"
        /\ Matched(r)
        /\ conns[r].hooks = 1
        /\ CallbackId(conns[r]) = "MyApp::login"
        /\ conns[q].st = "done"
        /\ ~Matched(q)
        /\ conns[q].hooks = 0

\* The callback of connection r is MyApp::login and has returned.
LoginDone(c) == c.st = "done" /\ c.route # 0 /\ CallbackId(c) = "MyApp::login"

\* C16: a finished login has one response: 400 with the message as body for a
\* malformed form and for the user name "error", 204 with no body otherwise;
\* the step that answers it changes no other connection and no other
\* connection's instance.
C16_HandlerResultAnswered ==
    /\ [](\A r \in Conns :
            LoginDone(conns[r]) =>
                /\ conns[r].w.heads = 1
                /\ conns[r].w.state = "Committed"
                /\ conns[r].req.form = "malformed" =>
                      (conns[r].w.out_status = 400 /\ conns[r].w.body = "malformed form")
                /\ conns[r].req.form = "error" =>
                      (conns[r].w.out_status = 400 /\ conns[r].w.body = "bad user name: error")
                /\ conns[r].req.form = "user" =>
                      (conns[r].w.out_status = 204 /\ conns[r].w.body = ""))
    /\ [][\A r \in Conns :
            (LoginDone(conns'[r]) /\ ~LoginDone(conns[r])) =>
                \A q \in Conns :
                    q # r =>
                        /\ conns'[q] = conns[q]
                        /\ HasApp(q) => heap'[conns[q].app] = heap[conns[q].app]]_vars

\* The login of the user name "error" is answered while a stream on the
\* other connection is open.
C16_Witness ==
    \E r, q \in Conns :
        /\ LoginDone(conns[r])
        /\ conns[r].req.form = "error"
        /\ conns[r].w.out_status = 400
        /\ conns[r].w.body = "bad user name: error"
        /\ q < r
        /\ conns[q].st = "running"
        /\ conns[q].w.state = "Streaming"
        /\ conns[q].w.body = "toto"

\* The request of a connection has failed: no route matched it, or the
\* instance for it could not be made.
Failed(c) == c.st = "dropped" \/ (c.st = "done" /\ c.route = 0)

\* C17: the step in which a request fails leaves the listener threads, the
\* pool and the route table as they were, and the connection has its one
\* well-formed response, an internal-error response when the instance could
\* not be made.
C17_FailuresContained ==
    [][\A r \in Conns :
          (Failed(conns'[r]) /\ ~Failed(conns[r])) =>
              /\ Listeners' = Listeners
              /\ srv'.pool = srv.pool
              /\ routes' = routes
              /\ conns'[r].w.heads = 1
              /\ conns'[r].w.state = "Committed"
              /\ conns'[r].w.closed
              /\ conns'[r].st = "dropped" => conns'[r].w.out_status = 500]_vars

(***************************************************************************)
(* Properties of serving under fair scheduling.                            *)
(***************************************************************************)

\* C18: a writer is Streaming only with its head out, its body open and its
\* callback still running; it becomes Streaming only from Building, in the
\* first stretch of a callback, with the one head written, and leaves
\* Streaming only to Committed, closed, in the step where its callback
\* ends; a Committed writer stays Committed, a second stream() and an append
\* after the close are refused; and every open stream is closed in the end.
C18_StreamClosedOnDrop ==
    /\ [](\A r \in Conns :
            /\ conns[r].w.state \in {"Building", "Streaming", "Committed"}
            /\ conns[r].w.state = "Streaming" =>
                  /\ ~conns[r].w.closed
                  /\ conns[r].w.heads = 1
                  /\ conns[r].st = "running"
                  /\ Stream(conns[r].w) = conns[r].w
            /\ conns[r].st = "done" => (conns[r].w.state = "Committed" /\ conns[r].w.closed)
            /\ conns[r].w.closed =>
                  /\ conns[r].w.state = "Committed"
                  /\ AppendChunk(conns[r].w, "late") = conns[r].w
                  /\ Stream(conns[r].w) = conns[r].w)
    /\ [][\A r \in Conns :
            /\ (conns'[r].w.state = "Streaming" /\ conns[r].w.state # "Streaming") =>
                  /\ conns[r].w.state = "Building"
                  /\ conns[r].st = "queued"
                  /\ conns'[r].w.heads = conns[r].w.heads + 1
            /\ (conns[r].w.state = "Streaming" /\ conns'[r].w.state # "Streaming") =>
                  /\ conns'[r].w.state = "Committed"
                  /\ conns'[r].w.closed
                  /\ conns'[r].st = "done"
            /\ conns[r].w.state = "Committed" => conns'[r].w.state = "Committed"]_vars
    /\ \A r \in 1..MaxReq :
          (conns[r].w.state = "Streaming") ~> (conns[r].w.state = "Committed" /\ conns[r].w.closed)

\* MyApp::streaming has returned: its three chunks are out and the stream is
\* closed.
C18_Witness ==
    \E r \in Conns :
        /\ conns[r].st = "done"
        /\ conns[r].w.log = <<"toto", "tata", "titi">>
        /\ conns[r].w.state = "Committed"
        /\ conns[r].w.closed

\* C19: a request in the queue of the pool is in the end one whose callback
\* a worker has run and whose connection has its one response, committed and
\* closed.
C19_SubmittedEventuallyAnswered ==
    \A r \in 1..MaxReq :
        (conns[r].st = "queued") ~>
            /\ conns[r].invoked = 1
            /\ conns[r].st = "done"
            /\ conns[r].w.state = "Committed"
            /\ conns[r].w.heads = 1
            /\ conns[r].w.closed

\* Two callbacks that sleep have both been run to their end by the one
\* worker.
C19_Witness ==
    /\ srv.pool = 1
    /\ conns[1].st = "done"
    /\ conns[2].st = "done"
    /\ CallbackId(conns[1]) = "MyApp::redirect"
    /\ CallbackId(conns[2]) = "MyApp::streaming"
    /\ conns[1].w.out_status = 302
    /\ conns[2].w.body = "tototatatiti"

(***************************************************************************)
(* Properties of the call of start and start_with.                         *)
(***************************************************************************)

\* C20: start and start_with have returned only when no listener thread
\* serves and the pool has no task queued or running, in the step of the
\* return and ever after; from the call to the return the Edge value is
\* borrowed and no step changes the route table.
C20_StartBlocksWhileServing ==
    /\ [](/\ srv.pc = "returned" => (Listeners = {} /\ queue = <<>> /\ running = {})
          /\ srv.pc = "serving" => Borrowed
          /\ srv.pc # "idle" => phase \in {"start", "start_with"})
    /\ [][/\ (srv.pc = "serving" /\ srv'.pc # "serving") =>
                /\ srv'.pc = "returned"
                /\ Listeners = {}
                /\ queue = <<>>
                /\ running = {}
          /\ srv.pc = "serving" => (routes' = routes /\ calls' = calls)]_vars

\* start has returned: its listener thread has ended, the task submitted
\* before that has been run, and a route has been registered besides the one
\* of main.
C20_Witness ==
    /\ srv.pc = "returned"
    /\ phase = "start"
    /\ Listeners = {}
    /\ Len(routes) = 2
    /\ \E r \in Conns : conns[r].invoked = 1

====
